---- MODULE Spec2Model ----
(***************************************************************************)
(* Model of blender-squinch.py: the per-frame projection computation       *)
(* (_calculate_squinch_data and the three driver functions), its           *)
(* single-slot cache, the setup and clear operators and the render-aspect  *)
(* setter.                                                                 *)
(*                                                                         *)
(* Python floats are modelled as exact rationals <<n, d>> in lowest terms  *)
(* with d > 0, so structural equality is numeric equality.  Rounding error *)
(* of the binary floating point is not modelled.                           *)
(***************************************************************************)
EXTENDS Integers, Sequences, FiniteSets, TLC

\* ---------------------------------------------------------------------------
\* Exact rational arithmetic standing for Python float arithmetic
\* ---------------------------------------------------------------------------

IAbs(n) == IF n < 0 THEN -n ELSE n

RECURSIVE GCD(_, _)
GCD(a, b) == IF b = 0 THEN a ELSE GCD(b, a % b)

\* the rational n/d (d # 0) in lowest terms with a positive denominator
Rat(n, d) ==
    LET g == GCD(IAbs(n), IAbs(d))
        s == IF d < 0 THEN -1 ELSE 1
    IN  <<(s * n) \div g, (s * d) \div g>>

FInt(n) == <<n, 1>>
FAdd(a, b) == Rat(a[1] * b[2] + b[1] * a[2], a[2] * b[2])
FSub(a, b) == Rat(a[1] * b[2] - b[1] * a[2], a[2] * b[2])
FMul(a, b) == Rat(a[1] * b[1], a[2] * b[2])
FNeg(a) == <<-a[1], a[2]>>
FAbs(a) == <<IAbs(a[1]), a[2]>>
FLe(a, b) == a[1] * b[2] <= b[1] * a[2]
FLt(a, b) == a[1] * b[2] < b[1] * a[2]
\* Python's binary max(a, b) and min(a, b): the first argument wins a tie
FMax(a, b) == IF FLt(a, b) THEN b ELSE a
FMin(a, b) == IF FLt(b, a) THEN b ELSE a
\* a / b for b # 0; the callers decide what a zero divisor does
FDiv(a, b) == Rat(a[1] * b[2], a[2] * b[1])
FIsZero(a) == a[1] = 0

\* min(...) and max(...) of a non-empty list of floats
RECURSIVE ListMin(_)
ListMin(s) == IF Len(s) = 1 THEN s[1] ELSE FMin(s[1], ListMin(Tail(s)))
RECURSIVE ListMax(_)
ListMax(s) == IF Len(s) = 1 THEN s[1] ELSE FMax(s[1], ListMax(Tail(s)))
RECURSIVE ListSum(_)
ListSum(s) == IF s = <<>> THEN FInt(0) ELSE FAdd(s[1], ListSum(Tail(s)))

\* ---------------------------------------------------------------------------
\* mathutils.Vector and rigid Matrix.  A vector is <<x, y, z>> of floats; a
\* world matrix is [loc, u, v, n]: the translation and the three columns of
\* its rotation part.  The matrices the model uses are rigid (orthonormal
\* columns), for which inverted_safe() is the exact inverse.
\* ---------------------------------------------------------------------------

Vec(x, y, z) == <<FInt(x), FInt(y), FInt(z)>>
VAdd(a, b) == <<FAdd(a[1], b[1]), FAdd(a[2], b[2]), FAdd(a[3], b[3])>>
VSub(a, b) == <<FSub(a[1], b[1]), FSub(a[2], b[2]), FSub(a[3], b[3])>>
VScale(k, a) == <<FMul(k, a[1]), FMul(k, a[2]), FMul(k, a[3])>>
VNeg(a) == <<FNeg(a[1]), FNeg(a[2]), FNeg(a[3])>>
Dot(a, b) == FAdd(FAdd(FMul(a[1], b[1]), FMul(a[2], b[2])), FMul(a[3], b[3]))
Cross(a, b) ==
    <<FSub(FMul(a[2], b[3]), FMul(a[3], b[2])),
      FSub(FMul(a[3], b[1]), FMul(a[1], b[3])),
      FSub(FMul(a[1], b[2]), FMul(a[2], b[1]))>>

AxisX == Vec(1, 0, 0)
AxisY == Vec(0, 1, 0)
AxisZ == Vec(0, 0, 1)
Origin == Vec(0, 0, 0)

\* Vector.normalized() on the vectors the model meets: the zero vector stays
\* zero and a vector along one axis becomes that signed axis
Sign(a) == IF a[1] > 0 THEN FInt(1) ELSE IF a[1] < 0 THEN FInt(-1) ELSE FInt(0)
normalized(a) == <<Sign(a[1]), Sign(a[2]), Sign(a[3])>>

\* Matrix.Translation(loc) @ basis.to_4x4()
Matrix(loc, u, v, n) == [loc |-> loc, u |-> u, v |-> v, n |-> n]
Translation(loc) == Matrix(loc, AxisX, AxisY, AxisZ)

\* m.inverted_safe() @ p for a rigid m: the coordinates of p - loc along the
\* columns of the rotation
InvertedSafeApply(m, p) ==
    LET q == VSub(p, m.loc)
    IN  <<Dot(m.u, q), Dot(m.v, q), Dot(m.n, q)>>

\* ---------------------------------------------------------------------------
\* State
\* ---------------------------------------------------------------------------

\* Object names are tuples, so that the derived marker names can be built
\* from the plane's name; None is the empty tuple.
None == <<>>
Some(x) == <<x>>
CamName == <<"Cam">>
PlaneName == <<"Plane">>
UserNames == {CamName, PlaneName}
Labels == <<"bottom_left", "bottom_right", "top_left", "top_right">>
DataPaths == {"lens", "shift_x", "shift_y"}
DriverFunctions ==
    {"squinch_horizontal_fov", "squinch_horizontal_shift", "squinch_vertical_shift"}

get_corner_empty_name(plane_name, label) == <<"Squinch">> \o plane_name \o <<label>>
get_orientation_empty_name(plane_name) == <<"Squinch_Orientation">> \o plane_name

\* the marker names the scene can hold: those of the one mesh object
EmptyNames ==
    {get_corner_empty_name(PlaneName, Labels[i]) : i \in 1..4}
        \cup {get_orientation_empty_name(PlaneName)}

VARIABLES
    objects,           \* bpy.data.objects, user objects: name -> type or "ABSENT"
    empties,           \* bpy.data.objects, markers: name -> [users, m]; users = 0: absent
    squinch_plane,     \* scene.squinch_plane pointer (a name or None)
    squinch_camera,    \* scene.squinch_camera pointer (a name or None)
    scene_props,       \* scene['squinch_camera_name'], scene['squinch_plane_name']
    constraints,       \* per user object: number of constraints named "Squinch Copy Rotation"
    drivers,           \* per user object's data: data_path -> number of drivers
    driver_namespace,  \* bpy.app.driver_namespace keys
    render,            \* scene.render settings
    frame_current,     \* scene.frame_current
    frame_subframe,    \* scene.frame_subframe, in halves
    cam_world,         \* the camera object's own world matrix
    cam_data,          \* camera data: sensor_width, lens
    plane_loc,         \* the plane object's world translation
    plane_mesh,        \* the plane's mesh: local vertices and summed face normal
    _squinch_cache,    \* the module-level cache {'frame', 'data'}
    cached_at,         \* history: <<frame, subframe>> at which the cache was written
    ret                \* what the last call returned or reported

vars ==
    <<objects, empties, squinch_plane, squinch_camera, scene_props, constraints,
      drivers, driver_namespace, render, frame_current, frame_subframe,
      cam_world, cam_data, plane_loc, plane_mesh, _squinch_cache, cached_at, ret>>

\* ---------------------------------------------------------------------------
\* Utilities
\* ---------------------------------------------------------------------------

Exists(name) ==
    IF name \in UserNames THEN objects[name] # "ABSENT"
    ELSE IF name \in EmptyNames THEN empties[name].users > 0
    ELSE FALSE

find_object(name) == IF Exists(name) THEN name ELSE None

ObjType(name) == IF name \in UserNames THEN objects[name] ELSE "EMPTY"

get_corner_empties(plane_name) ==
    [i \in 1..4 |-> find_object(get_corner_empty_name(plane_name, Labels[i]))]

\* The evaluated world matrix of an object.  The camera's rotation is
\* replaced by its target's while a "Squinch Copy Rotation" constraint with a
\* live target is on it (the host evaluates the constraint).
matrix_world(name) ==
    IF name \in EmptyNames THEN empties[name].m
    ELSE IF name = PlaneName THEN Translation(plane_loc)
    ELSE LET t == get_orientation_empty_name(PlaneName)
         IN  IF constraints[name] > 0 /\ Exists(t)
             THEN Matrix(cam_world.loc, empties[t].m.u, empties[t].m.v, empties[t].m.n)
             ELSE cam_world

\* ---------------------------------------------------------------------------
\* Driver functions
\* ---------------------------------------------------------------------------

EpsDen == 10000
eps == Rat(1, EpsDen)
TinyDen == 1000000000
DefaultFocal == 35
MinFocal == 1

\* abs(w) <= 1e-9, decided on the integers: |n|/d <= 1/TinyDen iff
\* |n| <= d div TinyDen
AbsLeTiny(w) == IAbs(w[1]) <= w[2] \div TinyDen

\* lines 284-310: the projection of the four marker translations through the
\* camera's inverse world matrix
perspective_u(p) == FDiv(p[1], FMax(FNeg(p[3]), eps))
perspective_v(p) == FDiv(p[2], FMax(FNeg(p[3]), eps))

\* center_v taken as the midpoint of the extents of v, as center_u is
DataFromExtents_MidpointV(u_min, u_max, v_vals, camdata) ==
    [width_u |-> FSub(u_max, u_min),
     center_u |-> FMul(FAdd(u_min, u_max), Rat(1, 2)),
     center_v |-> FMul(FAdd(ListMin(v_vals), ListMax(v_vals)), Rat(1, 2)),
     sensor_width |-> camdata.sensor_width,
     current_lens |-> camdata.lens]

\* lines 297-310: the cached record from the extents
DataFromExtents(u_min, u_max, v_vals, camdata) ==
    [width_u |-> FSub(u_max, u_min),
     center_u |-> FMul(FAdd(u_min, u_max), Rat(1, 2)),
     center_v |-> FMul(ListSum(v_vals), Rat(1, 4)),
     sensor_width |-> camdata.sensor_width,
     current_lens |-> camdata.lens]

\* lines 289-297: the perspective-normalized coordinates and their extents
DataFromCorners(corners_cam, camdata) ==
    DataFromExtents(ListMin([i \in 1..4 |-> perspective_u(corners_cam[i])]),
                    ListMax([i \in 1..4 |-> perspective_u(corners_cam[i])]),
                    [i \in 1..4 |-> perspective_v(corners_cam[i])],
                    camdata)

\* lines 284-285: the corners in camera space
SquinchData(cam_m, locs, camdata) ==
    DataFromCorners([i \in 1..4 |-> InvertedSafeApply(cam_m, locs[i])], camdata)

\* a cache test that never finds the entry
CacheHit_Never == FALSE

\* the cache test of line 264
CacheHit == _squinch_cache.frame = frame_current /\ _squinch_cache.data # None

\* what _calculate_squinch_data() returns (data), what it leaves in the cache,
\* and whether it wrote the cache
Hit == [data |-> _squinch_cache.data, cache |-> _squinch_cache, wrote |-> FALSE]
Miss == [data |-> None, cache |-> _squinch_cache, wrote |-> FALSE]
Computed(data) ==
    [data |-> Some(data),
     cache |-> [frame |-> frame_current, data |-> Some(data)],
     wrote |-> TRUE]

\* lines 278-316.  Reading cam.data.sensor_width of an object that is no
\* camera raises inside the try block and is caught by the except clause.
RecomputeWith(cam, es) ==
    IF \E i \in 1..4 : es[i] = None THEN Miss
    ELSE IF ObjType(cam) # "CAMERA" THEN Miss
    ELSE Computed(SquinchData(matrix_world(cam),
                              [i \in 1..4 |-> matrix_world(es[i]).loc],
                              cam_data))

\* lines 273-278
RecomputeFor(cam, plane) ==
    IF cam = None \/ plane = None THEN Miss
    ELSE RecomputeWith(cam, get_corner_empties(plane))

\* lines 268-274
Recompute(camera_name, plane_name) ==
    IF camera_name = None \/ plane_name = None THEN Miss
    ELSE RecomputeFor(find_object(camera_name), find_object(plane_name))

_calculate_squinch_data ==
    IF CacheHit THEN Hit
    ELSE Recompute(scene_props.squinch_camera_name, scene_props.squinch_plane_name)

\* the guard without its test of width_u
UseDefault_NoWidthTest(data) == data = None

\* the guard of lines 321, 329 and 337
UseDefault(data) == data = None \/ AbsLeTiny(data[1].width_u)

\* a returned float, or an exception that reached the caller
Returned(x) == [val |-> x, exc |-> FALSE]
Raised == [val |-> FInt(0), exc |-> TRUE]
Quotient(a, b) == IF FIsZero(b) THEN Raised ELSE Returned(FDiv(a, b))

\* line 324: max(1.0, float(focal))
ClampFocal(focal) ==
    IF focal.exc THEN Raised ELSE Returned(FMax(FInt(MinFocal), focal.val))

squinch_horizontal_fov(data) ==
    IF UseDefault(data) THEN Returned(FInt(DefaultFocal))
    ELSE ClampFocal(Quotient(data[1].sensor_width, data[1].width_u))

\* the horizontal shift dividing by any width_u it is given
squinch_horizontal_shift_Unguarded(data) ==
    IF data = None THEN Returned(FInt(0))
    ELSE Quotient(data[1].center_u, data[1].width_u)

squinch_horizontal_shift(data) ==
    IF UseDefault(data) THEN Returned(FInt(0))
    ELSE Quotient(data[1].center_u, data[1].width_u)

squinch_vertical_shift(data) ==
    IF UseDefault(data) THEN Returned(FInt(0))
    ELSE Quotient(data[1].center_v, data[1].width_u)

DriverCall(f, data) ==
    IF f = "squinch_horizontal_fov" THEN squinch_horizontal_fov(data)
    ELSE IF f = "squinch_horizontal_shift" THEN squinch_horizontal_shift(data)
    ELSE squinch_vertical_shift(data)

\* ---------------------------------------------------------------------------
\* Plane basis, corners and markers
\* ---------------------------------------------------------------------------

\* _mesh_world_vertices: the plane's world matrix is a translation
_mesh_world_vertices(mesh, loc) == [i \in 1..Len(mesh.verts) |-> VAdd(loc, mesh.verts[i])]

\* Vector.length > 1e-8 / 1e-12 on vectors with integer coordinates: a
\* non-zero one has length at least 1
LengthAboveTol(a) == a # Origin

\* the reference "up" of lines 64, 106 and 201
UpRef(n) == IF FLt(FAbs(Dot(n, AxisZ)), Rat(999, 1000)) THEN AxisZ ELSE AxisY

\* lines 105-109: orthonormal basis (u, v) from the normal
BasisFromU(n, u) == [u |-> u, v |-> normalized(Cross(n, u)), n |-> n]
BasisFromNormal(n) == BasisFromU(n, normalized(Cross(UpRef(n), n)))

RECURSIVE VSum(_)
VSum(s) == IF s = <<>> THEN Origin ELSE VAdd(s[1], VSum(Tail(s)))

\* the first index from k on at which ok holds, 0 when there is none
RECURSIVE FirstFrom(_, _)
FirstFrom(ok, k) ==
    IF k > Len(ok) THEN 0
    ELSE IF ok[k] THEN k
    ELSE FirstFrom(ok, k + 1)

\* lines 88-93: the index of p1, the first vertex after p0 away from p0
FarIndex(verts) ==
    FirstFrom([i \in 1..Len(verts) |-> LengthAboveTol(VSub(verts[i], verts[1]))], 2)

\* lines 94-99: the index of p2, the first vertex from the third on not in
\* line with p0 and p1
SpanIndex(verts, i1) ==
    IF i1 = 0 THEN 0
    ELSE FirstFrom([i \in 1..Len(verts) |->
                       LengthAboveTol(Cross(VSub(verts[i], verts[1]),
                                            VSub(verts[i1], verts[1])))], 3)

\* lines 100-103
NormalFromTriple(verts, i1, i2) ==
    IF i1 = 0 \/ i2 = 0 THEN AxisZ
    ELSE normalized(Cross(VSub(verts[i1], verts[1]), VSub(verts[i2], verts[1])))

FallbackNormalFrom(verts, i1) == NormalFromTriple(verts, i1, SpanIndex(verts, i1))

\* lines 86-103: the normal from the first three distinct points
FallbackNormal(verts) == FallbackNormalFrom(verts, FarIndex(verts))

\* lines 76-103.  mesh.acc is the sum of the face normals weighted by area
\* (the zero vector when there is no face).
MeshNormal(mesh, verts) ==
    IF mesh.faces >= 1 /\ LengthAboveTol(mesh.acc) THEN normalized(mesh.acc)
    ELSE FallbackNormal(verts)

WithOrigin(o, b) == [o |-> o, u |-> b.u, v |-> b.v, n |-> b.n]

PlaneBasisOf(mesh, loc, verts) ==
    IF verts = <<>> THEN WithOrigin(loc, BasisFromNormal(normalized(AxisZ)))
    ELSE WithOrigin(VScale(Rat(1, Len(verts)), VSum(verts)),
                    BasisFromNormal(MeshNormal(mesh, verts)))

\* _compute_plane_basis: [o, u, v, n] in world space
_compute_plane_basis(mesh, loc) == PlaneBasisOf(mesh, loc, _mesh_world_vertices(mesh, loc))

\* the extents of the projections ps
ExtentOf(ps) ==
    IF ps = <<>> THEN [min |-> FInt(0), max |-> FInt(1)]
    ELSE [min |-> ListMin(ps), max |-> ListMax(ps)]

\* the extents of the vertices along an axis
Extent(verts, axis) == ExtentOf([i \in 1..Len(verts) |-> Dot(verts[i], axis)])

\* pos(uu, vv) of line 135
PlanePos(b, uu, vv) ==
    VAdd(VAdd(b.o, VScale(FSub(uu, Dot(b.o, b.u)), b.u)),
         VScale(FSub(vv, Dot(b.o, b.v)), b.v))

CornerPositions(b, eu, ev) ==
    [l \in {Labels[i] : i \in 1..4} |->
        IF l = "bottom_left" THEN PlanePos(b, eu.min, ev.min)
        ELSE IF l = "bottom_right" THEN PlanePos(b, eu.max, ev.min)
        ELSE IF l = "top_left" THEN PlanePos(b, eu.min, ev.max)
        ELSE PlanePos(b, eu.max, ev.max)]

CornersOf(b, verts) == CornerPositions(b, Extent(verts, b.u), Extent(verts, b.v))

\* get_plane_corner_world_positions: label -> world position
get_plane_corner_world_positions(mesh, loc) ==
    CornersOf(_compute_plane_basis(mesh, loc), _mesh_world_vertices(mesh, loc))

WidthHeight(eu, ev) == <<FAbs(FSub(eu.max, eu.min)), FAbs(FSub(ev.max, ev.min))>>

WidthHeightOf(b, verts) ==
    IF verts = <<>> THEN <<FInt(1), FInt(1)>>
    ELSE WidthHeight(Extent(verts, b.u), Extent(verts, b.v))

\* width_height_from_corners: <<width, height>>
width_height_from_corners(mesh, loc) ==
    WidthHeightOf(_compute_plane_basis(mesh, loc), _mesh_world_vertices(mesh, loc))

NoEmpty == [users |-> 0, m |-> Translation(Origin)]

\* ensure_empty on the markers es: created with one user (its collection)
\* when missing, then placed
ensure_empty(es, name, m) ==
    [es EXCEPT ![name] = [users |-> IF es[name].users = 0 THEN 1 ELSE es[name].users,
                          m |-> m]]

\* create_corner_empties
RECURSIVE CreateCorners(_, _, _, _)
CreateCorners(es, plane, corners, i) ==
    IF i > 4 THEN es
    ELSE CreateCorners(
             ensure_empty(es, get_corner_empty_name(plane, Labels[i]),
                          Translation(corners[Labels[i]])),
             plane, corners, i + 1)

create_corner_empties(es, plane) ==
    CreateCorners(es, plane, get_plane_corner_world_positions(plane_mesh, plane_loc), 1)

\* lines 196-203: the frame, flipped to face the camera's side
FacingFrame(b, side) ==
    IF FLt(side, FInt(0)) THEN BasisFromNormal(VNeg(b.n))
    ELSE [u |-> b.u, v |-> b.v, n |-> b.n]

OrientationOf(o, f) == Matrix(o, f.u, f.v, f.n)

OrientationFor(b, camera_loc) ==
    OrientationOf(b.o, FacingFrame(b, Dot(VSub(camera_loc, b.o), b.n)))

\* ensure_orientation_empty: the world matrix given to the orientation marker
OrientationMatrix(mesh, loc, camera_loc) ==
    OrientationFor(_compute_plane_basis(mesh, loc), camera_loc)

ensure_orientation_empty(es, plane, camera) ==
    ensure_empty(es, get_orientation_empty_name(plane),
                 OrientationMatrix(plane_mesh, plane_loc, matrix_world(camera).loc))

\* ---------------------------------------------------------------------------
\* Render aspect, constraint and drivers
\* ---------------------------------------------------------------------------

\* int() of the float instead of round()
round_Truncate(q) == q[1] \div q[2]

\* Python's round() of a float to an int: to nearest, a tie to the even one
round(q) ==
    LET fl == q[1] \div q[2]
        twice == 2 * (q[1] % q[2])
    IN  IF twice < q[2] THEN fl
        ELSE IF twice > q[2] THEN fl + 1
        ELSE IF fl % 2 = 0 THEN fl ELSE fl + 1

IMax(a, b) == IF a < b THEN b ELSE a

\* lines 220-221 and 223-225: bump an odd value to the next even one
BumpToEven(n) == IF n % 2 # 0 THEN n + 1 ELSE n

\* lines 222-229
AspectRender(res_x, aspect) ==
    [resolution_x |-> res_x,
     resolution_y |-> BumpToEven(IMax(2, round(FDiv(FInt(res_x), aspect)))),
     pixel_aspect_x |-> FInt(1), pixel_aspect_y |-> FInt(1)]

\* lines 215-221
SetAspect(r, wh) ==
    IF FLe(wh[1], FInt(0)) \/ FLe(wh[2], FInt(0)) THEN r
    ELSE AspectRender(BumpToEven(IMax(2, r.resolution_x)), FDiv(wh[1], wh[2]))

\* set_render_aspect_to_plane: the render settings it leaves
set_render_aspect_to_plane(r, mesh, loc) ==
    SetAspect(r, width_height_from_corners(mesh, loc))

\* a constraint added without removing those of the same name
add_copy_rotation_constraint_NoRemove(cs, camera) == [cs EXCEPT ![camera] = @ + 1]

\* add_copy_rotation_constraint: the constraints of that name are removed and
\* one is added
add_copy_rotation_constraint(cs, camera) == [cs EXCEPT ![camera] = 1]

\* add_driver_single / add_squinch_driver_with_deps: the drivers on data_path
\* are removed and one is added
add_driver_single(ds, id_data, data_path) ==
    [ds EXCEPT ![id_data][data_path] = 1]

register_driver_functions(ns) == ns \cup DriverFunctions
unregister_driver_functions(ns) == ns \ DriverFunctions

NoDrivers == [p \in DataPaths |-> 0]

\* clear_camera_drivers: the drivers part
RemoveSquinchDrivers(ds, camera) == [ds EXCEPT ![camera] = NoDrivers]

NoProps == [squinch_camera_name |-> None, squinch_plane_name |-> None]

\* ---------------------------------------------------------------------------
\* Bounds and the values the host draws from
\* ---------------------------------------------------------------------------

MaxFrame == 2      \* frames 1..MaxFrame
MaxUsers == 2      \* users of a marker: its collection plus extra links

\* scene.frame_subframe takes the values 0 and 1/2, held in halves
Subframes == {0, 1}

SquareMesh ==
    [verts |-> <<Vec(-1, -1, 0), Vec(1, -1, 0), Vec(-1, 1, 0), Vec(1, 1, 0)>>,
     faces |-> 1, acc |-> Vec(0, 0, 4)]
\* a degenerate mesh: four vertices on one vertical line, no face
LineMesh ==
    [verts |-> <<Vec(0, -1, 0), Vec(0, 1, 0), Vec(0, -1, 0), Vec(0, 1, 0)>>,
     faces |-> 0, acc |-> Origin]
Meshes == {SquareMesh, LineMesh}

CameraLocs == {Origin, Vec(1, 0, -20)}
DefaultCamData == [sensor_width |-> FInt(36), lens |-> FInt(50), sensor_fit |-> "AUTO"]
DefaultRender ==
    [resolution_x |-> 1920, resolution_y |-> 1080,
     pixel_aspect_x |-> FInt(1), pixel_aspect_y |-> FInt(1)]

\* the types an object of each name can have
TypesOf(name) == IF name = CamName THEN {"CAMERA", "EMPTY"} ELSE {"MESH"}

\* ---------------------------------------------------------------------------
\* What a call leaves in ret
\* ---------------------------------------------------------------------------

HostStep == [op |-> "host", val |-> FInt(0), exc |-> FALSE, status |-> "", report |-> ""]
QueryRet(f, r) == [op |-> f, val |-> r.val, exc |-> r.exc, status |-> "", report |-> ""]
OperatorRet(op, status, report) ==
    [op |-> op, val |-> FInt(0), exc |-> FALSE, status |-> status, report |-> report]

\* ---------------------------------------------------------------------------
\* Initial state: the add-on registered, a camera and a mesh in the scene
\* ---------------------------------------------------------------------------

Init ==
    /\ objects = [n \in UserNames |-> IF n = CamName THEN "CAMERA" ELSE "MESH"]
    /\ empties = [n \in EmptyNames |-> NoEmpty]
    /\ squinch_plane = None
    /\ squinch_camera = None
    /\ scene_props = NoProps
    /\ constraints = [n \in UserNames |-> 0]
    /\ drivers = [n \in UserNames |-> NoDrivers]
    /\ driver_namespace = {}
    /\ render = DefaultRender
    /\ frame_current = 1
    /\ frame_subframe = 0
    /\ cam_world = Translation(Origin)
    /\ cam_data = DefaultCamData
    /\ plane_loc = Vec(0, 0, -10)
    /\ plane_mesh \in Meshes
    /\ _squinch_cache = [frame |-> -1, data |-> None]
    /\ cached_at = <<-1, 0>>
    /\ ret = OperatorRet("register", "", "")

\* ---------------------------------------------------------------------------
\* The three driver functions, called by a driver expression or directly
\* ---------------------------------------------------------------------------

QueryWith(f, r) ==
    /\ _squinch_cache' = r.cache
    /\ cached_at' = IF r.wrote THEN <<frame_current, frame_subframe>> ELSE cached_at
    /\ ret' = QueryRet(f, DriverCall(f, r.data))
    /\ UNCHANGED <<objects, empties, squinch_plane, squinch_camera, scene_props,
                   constraints, drivers, driver_namespace, render, frame_current,
                   frame_subframe, cam_world, cam_data, plane_loc, plane_mesh>>

Query(f) == QueryWith(f, _calculate_squinch_data)

\* ---------------------------------------------------------------------------
\* SQUINCH_OT_setup.execute
\* ---------------------------------------------------------------------------

\* a validation that accepts any object as the camera
SetupSelectionValid_AnyCamera(plane, camera) ==
    plane # None /\ ObjType(plane) = "MESH" /\ camera # None

\* lines 544-549: the selection the operator accepts
SetupSelectionValid(plane, camera) ==
    /\ ~(plane = None \/ ObjType(plane) # "MESH")
    /\ ~(camera = None \/ ObjType(camera) # "CAMERA")

\* setup_camera_drivers: the three drivers
setup_camera_drivers(ds, camera) ==
    add_driver_single(add_driver_single(add_driver_single(ds, camera, "lens"),
                                        camera, "shift_x"), camera, "shift_y")

Setup ==
    LET plane == squinch_plane
        camera == squinch_camera
    IN  IF ~SetupSelectionValid(plane, camera)
        THEN /\ ret' = OperatorRet("setup", "CANCELLED", "ERROR")
             /\ UNCHANGED <<objects, empties, squinch_plane, squinch_camera,
                            scene_props, constraints, drivers, driver_namespace,
                            render, frame_current, frame_subframe, cam_world,
                            cam_data, plane_loc, plane_mesh, _squinch_cache, cached_at>>
        ELSE /\ empties' = ensure_orientation_empty(
                               create_corner_empties(empties, plane), plane, camera)
             /\ render' = set_render_aspect_to_plane(render, plane_mesh, plane_loc)
             /\ constraints' = add_copy_rotation_constraint(constraints, camera)
             /\ driver_namespace' = register_driver_functions(driver_namespace)
             /\ scene_props' = [squinch_camera_name |-> camera,
                                squinch_plane_name |-> plane]
             /\ drivers' = setup_camera_drivers(drivers, camera)
             /\ cam_data' = IF ObjType(camera) = "CAMERA"
                            THEN [cam_data EXCEPT !.sensor_fit = "HORIZONTAL"]
                            ELSE cam_data
             /\ ret' = OperatorRet("setup", "FINISHED", "INFO")
             /\ UNCHANGED <<objects, squinch_plane, squinch_camera, frame_current,
                            frame_subframe, cam_world, plane_loc, plane_mesh,
                            _squinch_cache, cached_at>>

\* ---------------------------------------------------------------------------
\* SQUINCH_OT_clear.execute
\* ---------------------------------------------------------------------------

\* lines 597-602: a marker is removed when it exists and has one user
RemoveIfSingleUser(es, name) ==
    IF name \in EmptyNames /\ es[name].users = 1
    THEN [es EXCEPT ![name] = NoEmpty] ELSE es

RECURSIVE RemoveCorners(_, _, _)
RemoveCorners(es, plane, i) ==
    IF i > 4 THEN es
    ELSE RemoveCorners(RemoveIfSingleUser(es, get_corner_empty_name(plane, Labels[i])),
                       plane, i + 1)

RemoveEmpties(es, plane) ==
    RemoveIfSingleUser(RemoveCorners(es, plane, 1), get_orientation_empty_name(plane))

\* a guard that accepts any object as the camera
ClearsDrivers_AnyObject(camera) == camera # None

\* line 586: the guard of clear_camera_drivers
ClearsDrivers(camera) == camera # None /\ ObjType(camera) = "CAMERA"

Clear ==
    LET plane == squinch_plane
        camera == squinch_camera
    IN  /\ drivers' = IF ClearsDrivers(camera)
                      THEN RemoveSquinchDrivers(drivers, camera) ELSE drivers
        /\ scene_props' = IF ClearsDrivers(camera) THEN NoProps ELSE scene_props
        /\ driver_namespace' = IF ClearsDrivers(camera)
                               THEN unregister_driver_functions(driver_namespace)
                               ELSE driver_namespace
        /\ constraints' = IF camera # None
                          THEN [constraints EXCEPT ![camera] = 0] ELSE constraints
        /\ empties' = IF plane # None THEN RemoveEmpties(empties, plane) ELSE empties
        /\ ret' = OperatorRet("clear", "FINISHED", "INFO")
        /\ UNCHANGED <<objects, squinch_plane, squinch_camera, render, frame_current,
                       frame_subframe, cam_world, cam_data, plane_loc, plane_mesh,
                       _squinch_cache, cached_at>>

\* ---------------------------------------------------------------------------
\* The host: the user and the animation system acting on the scene
\* ---------------------------------------------------------------------------

SelectPlane(n) ==
    /\ n = None \/ Exists(n)
    /\ n # squinch_plane
    /\ squinch_plane' = n
    /\ ret' = HostStep
    /\ UNCHANGED <<objects, empties, squinch_camera, scene_props, constraints,
                   drivers, driver_namespace, render, frame_current, frame_subframe,
                   cam_world, cam_data, plane_loc, plane_mesh, _squinch_cache, cached_at>>

SelectCamera(n) ==
    /\ n = None \/ Exists(n)
    /\ n # squinch_camera
    /\ squinch_camera' = n
    /\ ret' = HostStep
    /\ UNCHANGED <<objects, empties, squinch_plane, scene_props, constraints,
                   drivers, driver_namespace, render, frame_current, frame_subframe,
                   cam_world, cam_data, plane_loc, plane_mesh, _squinch_cache, cached_at>>

\* bpy.data.objects.remove of a user object: the pointers to it are cleared
\* and its constraints and its data's drivers go with it
DeleteObject(n) ==
    /\ objects[n] # "ABSENT"
    /\ objects' = [objects EXCEPT ![n] = "ABSENT"]
    /\ squinch_plane' = IF squinch_plane = n THEN None ELSE squinch_plane
    /\ squinch_camera' = IF squinch_camera = n THEN None ELSE squinch_camera
    /\ constraints' = [constraints EXCEPT ![n] = 0]
    /\ drivers' = [drivers EXCEPT ![n] = NoDrivers]
    /\ ret' = HostStep
    /\ UNCHANGED <<empties, scene_props, driver_namespace, render, frame_current,
                   frame_subframe, cam_world, cam_data, plane_loc, plane_mesh,
                   _squinch_cache, cached_at>>

\* a new object takes a free name, with fresh data
CreateObject(n, t) ==
    /\ objects[n] = "ABSENT"
    /\ objects' = [objects EXCEPT ![n] = t]
    /\ cam_data' = IF n = CamName THEN DefaultCamData ELSE cam_data
    /\ ret' = HostStep
    /\ UNCHANGED <<empties, squinch_plane, squinch_camera, scene_props, constraints,
                   drivers, driver_namespace, render, frame_current, frame_subframe,
                   cam_world, plane_loc, plane_mesh, _squinch_cache, cached_at>>

\* the user deletes a marker
DeleteEmpty(e) ==
    /\ empties[e].users > 0
    /\ empties' = [empties EXCEPT ![e] = NoEmpty]
    /\ ret' = HostStep
    /\ UNCHANGED <<objects, squinch_plane, squinch_camera, scene_props, constraints,
                   drivers, driver_namespace, render, frame_current, frame_subframe,
                   cam_world, cam_data, plane_loc, plane_mesh, _squinch_cache, cached_at>>

\* the user links a marker into one more collection
LinkEmpty(e) ==
    /\ empties[e].users > 0
    /\ empties[e].users < MaxUsers
    /\ empties' = [empties EXCEPT ![e].users = @ + 1]
    /\ ret' = HostStep
    /\ UNCHANGED <<objects, squinch_plane, squinch_camera, scene_props, constraints,
                   drivers, driver_namespace, render, frame_current, frame_subframe,
                   cam_world, cam_data, plane_loc, plane_mesh, _squinch_cache, cached_at>>

\* the camera moves (along its path, or by hand)
MoveCamera(loc) ==
    /\ objects[CamName] # "ABSENT"
    /\ loc # cam_world.loc
    /\ cam_world' = [cam_world EXCEPT !.loc = loc]
    /\ ret' = HostStep
    /\ UNCHANGED <<objects, empties, squinch_plane, squinch_camera, scene_props,
                   constraints, drivers, driver_namespace, render, frame_current,
                   frame_subframe, cam_data, plane_loc, plane_mesh, _squinch_cache, cached_at>>

\* a marker moves
MoveEmpty(e, loc) ==
    /\ empties[e].users > 0
    /\ loc # empties[e].m.loc
    /\ empties' = [empties EXCEPT ![e].m.loc = loc]
    /\ ret' = HostStep
    /\ UNCHANGED <<objects, squinch_plane, squinch_camera, scene_props, constraints,
                   drivers, driver_namespace, render, frame_current, frame_subframe,
                   cam_world, cam_data, plane_loc, plane_mesh, _squinch_cache, cached_at>>

SetFrame(f) ==
    /\ f # frame_current
    /\ frame_current' = f
    /\ ret' = HostStep
    /\ UNCHANGED <<objects, empties, squinch_plane, squinch_camera, scene_props,
                   constraints, drivers, driver_namespace, render, frame_subframe,
                   cam_world, cam_data, plane_loc, plane_mesh, _squinch_cache, cached_at>>

SetSubframe(sf) ==
    /\ sf # frame_subframe
    /\ frame_subframe' = sf
    /\ ret' = HostStep
    /\ UNCHANGED <<objects, empties, squinch_plane, squinch_camera, scene_props,
                   constraints, drivers, driver_namespace, render, frame_current,
                   cam_world, cam_data, plane_loc, plane_mesh, _squinch_cache, cached_at>>

\* ---------------------------------------------------------------------------
\* Spec: the evaluation machine.  The driver functions run against a scene in
\* which the camera moves, frames and subframes change, objects and markers
\* are deleted and re-created, and setup and clear run.
\* ---------------------------------------------------------------------------

\* the marker the user deletes here: one corner
HostCorners == {get_corner_empty_name(PlaneName, "bottom_left")}

Next ==
    \/ \E f \in DriverFunctions : Query(f)
    \/ Setup
    \/ Clear
    \/ SelectPlane(PlaneName)
    \/ SelectCamera(CamName)
    \/ \E n \in UserNames : DeleteObject(n)
    \/ \E n \in UserNames : \E t \in TypesOf(n) : CreateObject(n, t)
    \/ \E e \in HostCorners : DeleteEmpty(e)
    \/ \E loc \in CameraLocs : MoveCamera(loc)
    \/ \E f \in 1..MaxFrame : SetFrame(f)
    \/ \E sf \in Subframes : SetSubframe(sf)

Spec == Init /\ [][Next]_vars

\* ---------------------------------------------------------------------------
\* SpecOps: the operators.  Setup and clear run under every selection, with
\* objects and markers deleted, re-created and linked by the user; the scene
\* does not animate.
\* ---------------------------------------------------------------------------

NextOps ==
    \/ Setup
    \/ Clear
    \/ \E n \in UserNames \cup {None} : SelectPlane(n)
    \/ \E n \in UserNames \cup {None} : SelectCamera(n)
    \/ \E n \in UserNames : DeleteObject(n)
    \/ \E n \in UserNames : \E t \in TypesOf(n) : CreateObject(n, t)
    \/ \E e \in EmptyNames : DeleteEmpty(e)
    \/ \E e \in EmptyNames : LinkEmpty(e)

SpecOps == Init /\ [][NextOps]_vars

\* ---------------------------------------------------------------------------
\* SpecProj: the projection.  The scene is as setup leaves it, with the four
\* corner markers, the camera and the orientation marker (which the camera's
\* rotation copies) placed anywhere in the sets below, as the animation of
\* the plane, the markers and the camera can place them; the driver functions
\* run and the frame changes.
\* ---------------------------------------------------------------------------

ProjMarkerLocs ==
    {Vec(-1, -1, -10), Vec(1, -1, -10), Vec(-1, 1, -10), Vec(1, 1, -10), Vec(1, 1, 0)}
ProjCameraLocs == {Origin, Vec(0, 0, -5)}
\* the rotation of the orientation marker: facing +Z, or flipped to face -Z
ProjFrames ==
    {[u |-> AxisX, v |-> AxisY, n |-> AxisZ],
     [u |-> VNeg(AxisX), v |-> AxisY, n |-> VNeg(AxisZ)]}
ProjSensorWidths == {FInt(36), FInt(24)}

InitProj ==
    /\ objects = [n \in UserNames |-> IF n = CamName THEN "CAMERA" ELSE "MESH"]
    /\ \E l1 \in ProjMarkerLocs, l2 \in ProjMarkerLocs, l3 \in ProjMarkerLocs,
          l4 \in ProjMarkerLocs, fr \in ProjFrames :
           empties =
               [n \in EmptyNames |->
                   [users |-> 1,
                    m |-> IF n = get_corner_empty_name(PlaneName, Labels[1])
                              THEN Translation(l1)
                          ELSE IF n = get_corner_empty_name(PlaneName, Labels[2])
                              THEN Translation(l2)
                          ELSE IF n = get_corner_empty_name(PlaneName, Labels[3])
                              THEN Translation(l3)
                          ELSE IF n = get_corner_empty_name(PlaneName, Labels[4])
                              THEN Translation(l4)
                          ELSE Matrix(Vec(0, 0, -10), fr.u, fr.v, fr.n)]]
    /\ squinch_plane = PlaneName
    /\ squinch_camera = CamName
    /\ scene_props = [squinch_camera_name |-> CamName, squinch_plane_name |-> PlaneName]
    /\ constraints = [n \in UserNames |-> IF n = CamName THEN 1 ELSE 0]
    /\ drivers = [n \in UserNames |->
                     IF n = CamName THEN [p \in DataPaths |-> 1] ELSE NoDrivers]
    /\ driver_namespace = DriverFunctions
    /\ render = set_render_aspect_to_plane(DefaultRender, SquareMesh, Vec(0, 0, -10))
    /\ frame_current = 1
    /\ frame_subframe = 0
    /\ \E loc \in ProjCameraLocs : cam_world = Translation(loc)
    /\ \E sw \in ProjSensorWidths :
           cam_data = [sensor_width |-> sw, lens |-> FInt(50), sensor_fit |-> "HORIZONTAL"]
    /\ plane_loc = Vec(0, 0, -10)
    /\ plane_mesh = SquareMesh
    /\ _squinch_cache = [frame |-> -1, data |-> None]
    /\ cached_at = <<-1, 0>>
    /\ ret = OperatorRet("setup", "FINISHED", "INFO")

NextProj ==
    \/ \E f \in DriverFunctions : Query(f)
    \/ \E f \in 1..MaxFrame : SetFrame(f)

SpecProj == InitProj /\ [][NextProj]_vars

\* ---------------------------------------------------------------------------
\* SpecAspect: the render aspect.  Setup runs on a mesh of any of the sizes
\* below with the render resolution at any of the values below.
\* ---------------------------------------------------------------------------

\* a w x h rectangle in the plane's XY plane, one face
RectMesh(w, h) ==
    [verts |-> <<Vec(0, 0, 0), Vec(w, 0, 0), Vec(0, h, 0), Vec(w, h, 0)>>,
     faces |-> 1, acc |-> Vec(0, 0, w * h)]
EmptyMesh == [verts |-> <<>>, faces |-> 0, acc |-> Origin]

AspectSizes == {<<2, 2>>, <<4, 2>>, <<3, 2>>, <<2, 3>>, <<4, 5>>, <<4, 1>>, <<4, 3>>,
                <<0, 2>>, <<2, 0>>, <<0, 0>>}
AspectMeshes == {RectMesh(wh[1], wh[2]) : wh \in AspectSizes} \cup {EmptyMesh, LineMesh}
AspectResolutions == {-3, 0, 1, 2, 3, 4, 5, 6, 7, 1919, 1920}
AspectPixelAspects == {FInt(1), FInt(2)}

InitAspect ==
    /\ objects = [n \in UserNames |-> IF n = CamName THEN "CAMERA" ELSE "MESH"]
    /\ empties = [n \in EmptyNames |-> NoEmpty]
    /\ squinch_plane = PlaneName
    /\ squinch_camera = CamName
    /\ scene_props = NoProps
    /\ constraints = [n \in UserNames |-> 0]
    /\ drivers = [n \in UserNames |-> NoDrivers]
    /\ driver_namespace = {}
    /\ \E rx \in AspectResolutions, pa \in AspectPixelAspects :
           render = [resolution_x |-> rx, resolution_y |-> 1080,
                     pixel_aspect_x |-> pa, pixel_aspect_y |-> pa]
    /\ frame_current = 1
    /\ frame_subframe = 0
    /\ cam_world = Translation(Origin)
    /\ cam_data = DefaultCamData
    /\ plane_loc = Vec(0, 0, -10)
    /\ plane_mesh \in AspectMeshes
    /\ _squinch_cache = [frame |-> -1, data |-> None]
    /\ cached_at = <<-1, 0>>
    /\ ret = HostStep

NextAspect == Setup

SpecAspect == InitAspect /\ [][NextAspect]_vars

\* ---------------------------------------------------------------------------
\* SpecMove: a configured camera and plane whose camera and corner markers
\* move, by animation or by hand, while the host changes frame and subframe
\* and evaluates the drivers.
\* ---------------------------------------------------------------------------

MovingCorners ==
    {get_corner_empty_name(PlaneName, "bottom_left"),
     get_corner_empty_name(PlaneName, "bottom_right")}
MoveMarkerLocs == {Vec(-1, -1, -10), Vec(1, -1, -10), Vec(3, -1, -10)}

\* the scene setup leaves for a 2 x 2 plane 10 units in front of the camera
InitMove ==
    /\ objects = [n \in UserNames |-> IF n = CamName THEN "CAMERA" ELSE "MESH"]
    /\ plane_loc = Vec(0, 0, -10)
    /\ plane_mesh = SquareMesh
    /\ cam_world = Translation(Origin)
    /\ empties =
           [n \in EmptyNames |->
               [users |-> 1,
                m |-> IF n = get_orientation_empty_name(PlaneName)
                      THEN Matrix(Vec(0, 0, -10), AxisX, AxisY, AxisZ)
                      ELSE Translation(
                               get_plane_corner_world_positions(SquareMesh,
                                                                Vec(0, 0, -10))[n[3]])]]
    /\ squinch_plane = PlaneName
    /\ squinch_camera = CamName
    /\ scene_props = [squinch_camera_name |-> CamName, squinch_plane_name |-> PlaneName]
    /\ constraints = [n \in UserNames |-> IF n = CamName THEN 1 ELSE 0]
    /\ drivers = [n \in UserNames |->
                     IF n = CamName THEN [p \in DataPaths |-> 1] ELSE NoDrivers]
    /\ driver_namespace = DriverFunctions
    /\ render = set_render_aspect_to_plane(DefaultRender, SquareMesh, Vec(0, 0, -10))
    /\ frame_current = 1
    /\ frame_subframe = 0
    /\ cam_data = [DefaultCamData EXCEPT !.sensor_fit = "HORIZONTAL"]
    /\ _squinch_cache = [frame |-> -1, data |-> None]
    /\ cached_at = <<-1, 0>>
    /\ ret = OperatorRet("setup", "FINISHED", "INFO")

NextMove ==
    \/ \E f \in DriverFunctions : Query(f)
    \/ \E loc \in CameraLocs : MoveCamera(loc)
    \/ \E e \in MovingCorners : \E loc \in MoveMarkerLocs : MoveEmpty(e, loc)
    \/ \E f \in 1..MaxFrame : SetFrame(f)
    \/ \E sf \in Subframes : SetSubframe(sf)

SpecMove == InitMove /\ [][NextMove]_vars

\* ===========================================================================
\* Properties
\* ===========================================================================

FOV == "squinch_horizontal_fov"
HSHIFT == "squinch_horizontal_shift"
VSHIFT == "squinch_vertical_shift"

\* the last call was one of the three driver functions
Queried == ret.op \in DriverFunctions

\* the documented safe default of each query
SafeDefault(f) == IF f = FOV THEN FInt(35) ELSE FInt(0)

\* |w| <= 1e-9
Negligible(w) == w[1] = 0 \/ IAbs(w[1]) <= w[2] \div 1000000000

\* the greatest and least of a set of floats
SetMax(S) == CHOOSE m \in S : \A x \in S : FLe(x, m)
SetMin(S) == CHOOSE m \in S : \A x \in S : FLe(m, x)

\* the outputs the specification derives from widthU, centerU, centerV and
\* the sensor width
SpecFocal(sw, w) == IF FLt(FDiv(sw, w), FInt(1)) THEN FInt(1) ELSE FDiv(sw, w)
SpecOutput(f, sw, w, cu, cv) ==
    IF Negligible(w) THEN SafeDefault(f)
    ELSE IF f = FOV THEN SpecFocal(sw, w)
    ELSE IF f = HSHIFT THEN FDiv(cu, w)
    ELSE FDiv(cv, w)

\* the four corner markers' camera-local coordinates in the current scene
CornerName(i) == get_corner_empty_name(PlaneName, Labels[i])
LocalCorner(i) == InvertedSafeApply(matrix_world(CamName), empties[CornerName(i)].m.loc)
\* d = max(-z, 1e-4), u = x / d, v = y / d
LocalDepth(i) ==
    IF FLt(FNeg(LocalCorner(i)[3]), Rat(1, 10000)) THEN Rat(1, 10000)
    ELSE FNeg(LocalCorner(i)[3])
LocalU(i) == FDiv(LocalCorner(i)[1], LocalDepth(i))
LocalV(i) == FDiv(LocalCorner(i)[2], LocalDepth(i))
MaxU == SetMax({LocalU(i) : i \in 1..4})
MinU == SetMin({LocalU(i) : i \in 1..4})
WidthU == FSub(MaxU, MinU)
CenterU == FDiv(FAdd(MinU, MaxU), FInt(2))
CenterV == FDiv(FAdd(FAdd(LocalV(1), LocalV(2)), FAdd(LocalV(3), LocalV(4))), FInt(4))

\* the corners are (+-1, +-1, -10) in camera space, in any order
SymmetricSquare ==
    {LocalCorner(i) : i \in 1..4}
        = {Vec(-1, -1, -10), Vec(1, -1, -10), Vec(-1, 1, -10), Vec(1, 1, -10)}

\* C5: for corners with camera-local (x, y, z), d = max(-z, 1e-4), u = x/d,
\* v = y/d and widthU = max(u) - min(u) > 1e-9, a query returns focal length
\* max(1.0, sensorWidth / widthU), horizontal shift ((min u + max u)/2) / widthU
\* and vertical shift (mean of the four v) / widthU; corners (+-1, +-1, -10)
\* with sensor width 36 give 180, 0 and 0; the focal length is never below 1.0.
C5_Projection ==
    Queried =>
        /\ ~Negligible(WidthU) =>
               /\ ~ret.exc
               /\ ret.op = FOV => ret.val = SpecFocal(cam_data.sensor_width, WidthU)
               /\ ret.op = HSHIFT => ret.val = FDiv(CenterU, WidthU)
               /\ ret.op = VSHIFT => ret.val = FDiv(CenterV, WidthU)
        /\ (SymmetricSquare /\ cam_data.sensor_width = FInt(36)) =>
               ret.val = IF ret.op = FOV THEN FInt(180) ELSE FInt(0)
        /\ ret.op = FOV => FLe(FInt(1), ret.val)

\* the symmetric square was queried and gave 180
C5_Witness ==
    /\ ret.op = FOV
    /\ SymmetricSquare
    /\ cam_data.sensor_width = FInt(36)
    /\ ret.val = FInt(180)

\* C6: whenever |widthU| <= 1e-9 the three queries return exactly 35.0, 0.0
\* and 0.0, and no division by widthU is performed (no query ends in a
\* division error).
C6_Degenerate ==
    (Queried /\ Negligible(WidthU)) => (~ret.exc /\ ret.val = SafeDefault(ret.op))

\* four coincident corners were queried
C6_Witness ==
    /\ ret.op = FOV
    /\ Cardinality({empties[CornerName(i)].m.loc : i \in 1..4}) = 1
    /\ _squinch_cache.data # None
    /\ ret.val = FInt(35)

\* the cache holds a result for the current frame
CacheHoldsCurrent == _squinch_cache.frame = frame_current /\ _squinch_cache.data # None

\* the output the specification derives from a stored result
OutputOf(f, d) == SpecOutput(f, d.sensor_width, d.width_u, d.center_u, d.center_v)

Resolvable ==
    /\ scene_props.squinch_camera_name \in UserNames
    /\ scene_props.squinch_plane_name \in UserNames
    /\ objects[scene_props.squinch_camera_name] = "CAMERA"
    /\ objects[scene_props.squinch_plane_name] # "ABSENT"
    /\ \A i \in 1..4 :
           LET e == get_corner_empty_name(scene_props.squinch_plane_name, Labels[i])
           IN  e \in EmptyNames /\ empties[e].users > 0

\* the projection of the current camera pose and corner positions
FreshData ==
    [width_u |-> WidthU, center_u |-> CenterU, center_v |-> CenterV,
     sensor_width |-> cam_data.sensor_width, current_lens |-> cam_data.lens]

\* C2: the cache is keyed by frame plus subframe: whenever the current
\* instant (frame or subframe) differs from the instant of the cache entry and
\* camera and corner markers are resolvable, a query recomputes the projection
\* from the current pose and corners and overwrites the cache entry.
C2_KeyedByInstant ==
    [][(/\ ret'.op \in DriverFunctions
        /\ cached_at # <<frame_current, frame_subframe>>
        /\ Resolvable) =>
           /\ _squinch_cache' = [frame |-> frame_current, data |-> Some(FreshData)]
           /\ ret'.val = OutputOf(ret'.op, FreshData)]_vars

\* the configured camera name or plane name is unset, or the camera, the plane
\* or one of the four corner markers cannot be resolved
Unresolved ==
    \/ scene_props.squinch_camera_name = None
    \/ scene_props.squinch_plane_name = None
    \/ ~Exists(scene_props.squinch_camera_name)
    \/ ~Exists(scene_props.squinch_plane_name)
    \/ \E i \in 1..4 :
           ~Exists(get_corner_empty_name(scene_props.squinch_plane_name, Labels[i]))

\* C3: in every reachable state, if the configured camera or plane name is
\* unset, or the camera, the plane or a corner marker cannot be resolved, each
\* query returns its safe default 35.0 / 0.0 / 0.0.
C3_DefaultsWhenUnresolved ==
    (Queried /\ Unresolved) => (~ret.exc /\ ret.val = SafeDefault(ret.op))

\* C4: the three query functions never fail: in every reachable state each
\* query ends by returning a number; no exception and no division by zero
\* reaches the caller.
C4_QueriesNeverFail == Queried => ~ret.exc

\* a query ran on a cached projection of zero width
C4_Witness ==
    /\ Queried
    /\ CacheHoldsCurrent
    /\ FIsZero(_squinch_cache.data[1].width_u)
    /\ ret.val = SafeDefault(ret.op)

\* C9: after clear on the configured camera/plane pair no derived state
\* remains: the stored names are unset, the drivers on lens, shift_x and
\* shift_y, the constraint, the four corner markers and the orientation marker
\* are removed, the driver functions are unregistered and the cached result
\* is discarded, so that any query after the clear returns its default.
C9_ClearRemovesAll ==
    [][(/\ ret'.op = "clear"
        /\ scene_props.squinch_camera_name # None
        /\ squinch_camera = scene_props.squinch_camera_name
        /\ squinch_plane = scene_props.squinch_plane_name
        /\ ObjType(squinch_camera) = "CAMERA"
        /\ ObjType(squinch_plane) = "MESH") =>
           /\ scene_props' = NoProps
           /\ \A dp \in DataPaths : drivers'[squinch_camera][dp] = 0
           /\ constraints'[squinch_camera] = 0
           /\ \A e \in EmptyNames : empties'[e].users = 0
           /\ driver_namespace' \cap DriverFunctions = {}
           /\ _squinch_cache'.data = None
           /\ \A f \in DriverFunctions :
                  DriverCall(f, _calculate_squinch_data.data)' = Returned(SafeDefault(f))]_vars

\* the selection the setup operator rejects: plane missing or no mesh, camera
\* missing or no camera
InvalidSetupSelection ==
    \/ squinch_plane = None
    \/ objects[squinch_plane] # "MESH"
    \/ squinch_camera = None
    \/ objects[squinch_camera] # "CAMERA"

\* C7: setup is validated upfront: if the selected plane is missing or not a
\* mesh, or the selected camera is missing or not a camera, setup reports an
\* error, returns cancelled and changes no state: markers, constraints,
\* drivers, render resolution, stored names and registered driver functions
\* are what they were.
C7_SetupValidatedUpfront ==
    [][(ret'.op = "setup" /\ InvalidSetupSelection) =>
           /\ ret'.status = "CANCELLED"
           /\ ret'.report = "ERROR"
           /\ UNCHANGED <<objects, empties, constraints, drivers, render,
                          scene_props, driver_namespace, cam_data,
                          _squinch_cache>>]_vars

\* setup was cancelled on a selection whose camera is a mesh, with the state
\* of an earlier successful setup in place
C7_Witness ==
    /\ ret.op = "setup"
    /\ ret.status = "CANCELLED"
    /\ squinch_plane = PlaneName
    /\ squinch_camera = PlaneName
    /\ scene_props.squinch_camera_name = CamName
    /\ constraints[CamName] = 1

\* the selection the claim calls invalid for clear
InvalidClearSelection ==
    \/ squinch_camera = None
    \/ objects[squinch_camera] # "CAMERA"
    \/ squinch_plane = None

\* the markers belonging to a plane
MarkersOf(plane) ==
    {get_corner_empty_name(plane, Labels[i]) : i \in 1..4}
        \cup {get_orientation_empty_name(plane)}

\* C8 as stated: teardown is validated upfront: if the camera is missing or
\* not a camera, or the plane is missing, clear reports a failure and changes
\* no state at all.
C8_ClearValidatedUpfront ==
    [][(ret'.op = "clear" /\ InvalidClearSelection) =>
           /\ ret'.report = "ERROR"
           /\ UNCHANGED <<empties, constraints, drivers, scene_props,
                          driver_namespace>>]_vars

\* C8, amended: clear validates nothing and never fails.  It reports success
\* and does the part of the teardown each selected object allows: drivers,
\* stored names and driver functions are removed exactly when the selected
\* camera is a camera; the constraint is removed from whatever object is
\* selected as camera; the markers of the selected plane that have exactly one
\* user are removed; everything else is left as it was.
C8_ClearIsPartial ==
    [][ret'.op = "clear" =>
           /\ ret'.status = "FINISHED"
           /\ ret'.report = "INFO"
           /\ IF squinch_camera # None /\ objects[squinch_camera] = "CAMERA"
              THEN /\ scene_props' = NoProps
                   /\ driver_namespace' = driver_namespace \ DriverFunctions
                   /\ \A n \in UserNames, dp \in DataPaths :
                          drivers'[n][dp] = IF n = squinch_camera THEN 0
                                            ELSE drivers[n][dp]
              ELSE UNCHANGED <<scene_props, driver_namespace, drivers>>
           /\ \A n \in UserNames :
                  constraints'[n] = IF n = squinch_camera THEN 0 ELSE constraints[n]
           /\ \A e \in EmptyNames :
                  empties'[e] = IF /\ squinch_plane # None
                                   /\ e \in MarkersOf(squinch_plane)
                                   /\ empties[e].users = 1
                                THEN NoEmpty ELSE empties[e]]_vars

\* clear ran with no camera selected: it reported success, removed the
\* markers of the plane and kept the stored names, drivers and functions
C8_Witness ==
    /\ ret.op = "clear"
    /\ ret.report = "INFO"
    /\ squinch_camera = None
    /\ squinch_plane = PlaneName
    /\ \A e \in EmptyNames : empties[e].users = 0
    /\ scene_props.squinch_camera_name = CamName
    /\ \A dp \in DataPaths : drivers[CamName][dp] = 1
    /\ DriverFunctions \subseteq driver_namespace

\* y is the float q rounded to an integer, ties to the even neighbour
IsRounded(y, q) ==
    /\ 2 * IAbs(y * q[2] - q[1]) <= q[2]
    /\ 2 * IAbs(y * q[2] - q[1]) = q[2] => y % 2 = 0

\* n raised by one if odd
EvenUp(n) == IF n % 2 = 0 THEN n ELSE n + 1

\* what C10 requires of the render settings after the setter ran on a target
\* of width w and height h, from the initial resolution rx
AspectSet(r, rx, w, h) ==
    /\ r.resolution_x = IMax(2, EvenUp(rx))
    /\ \E y \in 0..r.resolution_y :
           /\ IsRounded(y, FDiv(FMul(FInt(r.resolution_x), h), w))
           /\ r.resolution_y = IMax(2, EvenUp(y))
    /\ r.resolution_x % 2 = 0
    /\ r.resolution_y % 2 = 0
    /\ r.pixel_aspect_x = FInt(1)
    /\ r.pixel_aspect_y = FInt(1)

AspectKept(r0, r, wh) ==
    IF FLt(FInt(0), wh[1]) /\ FLt(FInt(0), wh[2])
    THEN AspectSet(r, r0.resolution_x, wh[1], wh[2])
    ELSE r = r0

\* C10: the aspect-ratio setter, for a target of positive width and height
\* and any initial integer resolution_x, leaves resolution_x the initial value
\* raised by one if odd (at least 2), resolution_y =
\* round(resolution_x * height / width) raised by one if odd (at least 2),
\* both even, and pixel aspect 1:1; ratio 2.0 with resolution_x 1920 gives
\* 1920 x 960; if width or height is not positive the render settings are
\* unchanged.
C10_AspectSetter ==
    [][(ret'.op = "setup" /\ ret'.status = "FINISHED") =>
           /\ AspectKept(render, render', width_height_from_corners(plane_mesh, plane_loc))
           /\ (plane_mesh = RectMesh(4, 2) /\ render.resolution_x = 1920) =>
                  (render'.resolution_x = 1920 /\ render'.resolution_y = 960)]_vars

\* setup ran on a 4 x 2 plane from 1919 x 1080 with pixel aspect 2:2
C10_Witness ==
    /\ ret.op = "setup"
    /\ ret.status = "FINISHED"
    /\ plane_mesh = RectMesh(4, 2)
    /\ render = [resolution_x |-> 1920, resolution_y |-> 960,
                 pixel_aspect_x |-> FInt(1), pixel_aspect_y |-> FInt(1)]

\* C11: no stale outputs: after any interleaving of camera moves,
\* corner-marker moves, frame and subframe changes and queries, a query that
\* returns a non-default value returns the value the projection gives for the
\* camera pose and corner positions current at the time of the query.
C11_NoStaleOutputs ==
    (Queried /\ ret.val # SafeDefault(ret.op)) =>
        ret.val = OutputOf(ret.op, FreshData)

\* a query that has to recompute and cannot: no entry for the current frame,
\* and a name unset, an object or marker unresolvable, or a camera object
\* without camera data (the exception of the geometry code)
RecomputeFails ==
    /\ ~CacheHoldsCurrent
    /\ \/ Unresolved
       \/ objects[scene_props.squinch_camera_name] # "CAMERA"

\* C12: a failed recomputation leaves the cache holding "no data": after the
\* failure the cache no longer holds the result of any earlier instant.
C12_FailureClearsCache ==
    [][(ret'.op \in DriverFunctions /\ RecomputeFails) =>
           _squinch_cache'.data = None]_vars

\* the last operation was a successful setup
SetupDone == ret.op = "setup" /\ ret.status = "FINISHED"

\* C13: setup is idempotent on the derived scene state: after any number of
\* successful setups on the same camera and plane, the camera has exactly one
\* "Squinch Copy Rotation" constraint and exactly one driver on each of lens,
\* shift_x and shift_y, and the plane has exactly four corner markers and one
\* orientation marker.
C13_SetupIdempotent ==
    SetupDone =>
        /\ constraints[squinch_camera] = 1
        /\ \A dp \in DataPaths : drivers[squinch_camera][dp] = 1
        /\ \A i \in 1..4 : Exists(get_corner_empty_name(squinch_plane, Labels[i]))
        /\ Cardinality({get_corner_empty_name(squinch_plane, Labels[i]) : i \in 1..4}) = 4
        /\ Exists(get_orientation_empty_name(squinch_plane))
        /\ {e \in EmptyNames : empties[e].users > 0} = MarkersOf(squinch_plane)

\* setup ran again on markers an earlier setup had created and the user had
\* linked into a second collection since
C13_Witness ==
    /\ SetupDone
    /\ constraints[CamName] = 1
    /\ \A e \in EmptyNames : empties[e].users > 0
    /\ \E e \in EmptyNames : empties[e].users = 2

====
